---- MODULE Spec2Model ----
(***************************************************************************)
(* Model of lightwood/data/splitter.py: splitter, stratify_wrapper,        *)
(* stratify and randomize_uneven_stratification.                           *)
(*                                                                         *)
(* A data frame is a sequence of rows; a row is a record [id, y, g] where  *)
(* id is the row's identity (its position in the original data), y is the *)
(* target column and g is the group-by column.  A fraction is held as a    *)
(* whole number of hundredths p; pct_type tells which Python value it is:  *)
(* "float" is the float p/100 (the documented input), "int" is the int p.  *)
(***************************************************************************)
EXTENDS Integers, Sequences, FiniteSets, TLC

VARIABLES pc, data, tss, dtype_dict, seed, pcts, pct_type, target, split,
          nr_subset, stratify_on, random_alloc, subsets, result,
          gi, n, already_visited, i

vars == <<pc, data, tss, dtype_dict, seed, pcts, pct_type, target, split,
          nr_subset, stratify_on, random_alloc, subsets, result,
          gi, n, already_visited, i>>

(***************************************************************************)
(* Bounds of the model.                                                    *)
(***************************************************************************)
MaxRows == 4
MaxRandRows == 2
MaxRandSubsets == 2
MaxSeed == 1

(***************************************************************************)
(* Program constant: the default of len_threshold.                         *)
(***************************************************************************)
LooserThreshold == 2 + 1

len_threshold == 2

None == "None"
NoResult == [status |-> "none"]

(***************************************************************************)
(* Sequence helpers (Python list / pandas frame operations).               *)
(***************************************************************************)
Range(s) == {s[k] : k \in 1..Len(s)}

Min(a, b) == IF a < b THEN a ELSE b

\* Python slice s[lo:hi] with non-negative bounds (0-based, hi exclusive, clamped).
Slice(s, lo, hi) == SubSeq(s, lo + 1, Min(hi, Len(s)))

\* Python slice s[lo:].
SliceFrom(s, lo) == SubSeq(s, lo + 1, Len(s))

RECURSIVE Concat(_)
\* pd.concat of a non-empty list of frames.
Concat(frames) ==
    IF frames = <<>> THEN <<>> ELSE Head(frames) \o Concat(Tail(frames))

RECURSIVE Gcd(_, _)
Gcd(a, b) == IF b = 0 THEN a ELSE Gcd(b, a % b)

\* Rounding with ties going up.
PyRoundHalfUp(num, den) == (2 * num + den) \div (2 * den)

\* Python round() of the non-negative value num/den: ties go to the even integer.
PyRound(num, den) ==
    LET q == num \div den
        r == num % den
    IN  IF 2 * r > den \/ (2 * r = den /\ q % 2 = 1) THEN q + 1 ELSE q

\* data.sample(frac=1, random_state=seed).reset_index(drop=True): a permutation of
\* the rows that the seed determines (here: rotate by seed, then reverse).
Shuffle(d, s) ==
    LET len == Len(d)
    IN  [k \in 1..len |-> d[((len - k + s) % len) + 1]]

\* Chunks of Len \div N rows, the remainder going to the last chunk.
ArraySplitRemainderLast(frame, N) ==
    LET q == Len(frame) \div N
    IN  [k \in 1..N |->
            SubSeq(frame, (k - 1) * q + 1, IF k = N THEN Len(frame) ELSE k * q)]

\* np.array_split(frame, N): N contiguous chunks, the first Len % N one row longer.
ArraySplit(frame, N) ==
    LET q == Len(frame) \div N
        r == Len(frame) % N
    IN  [k \in 1..N |->
            LET lo == (k - 1) * q + Min(k - 1, r)
                sz == q + (IF k <= r THEN 1 ELSE 0)
            IN  SubSeq(frame, lo + 1, lo + sz)]

(***************************************************************************)
(* splitter, lines 43-49: the cutoff split.                                *)
(***************************************************************************)
ShuffleAlways(t) == TRUE

\* `if not tss.is_timeseries` (line 40).
ShouldShuffle(t) == ~t.is_timeseries

CutoffSplit(d, t, s, pct_train, pct_dev) ==
    LET shuffled == IF ShouldShuffle(t) THEN Shuffle(d, s) ELSE d
        train_cutoff == PyRound(Len(shuffled) * pct_train, 100)
        dev_cutoff == train_cutoff + PyRound(Len(shuffled) * pct_dev, 100)
    IN  [train |-> Slice(shuffled, 0, train_cutoff),
         dev |-> Slice(shuffled, train_cutoff, dev_cutoff),
         test |-> SliceFrom(shuffled, dev_cutoff)]

(***************************************************************************)
(* stratify, deterministic mode.                                           *)
(***************************************************************************)
\* data[col].unique(): the distinct values in order of first appearance.
Unique(d, col) ==
    LET vals == [k \in 1..Len(d) |-> d[k][col]]
        first(k) == \A j \in 1..(k - 1) : vals[j] # vals[k]
    IN  SelectSeq([k \in 1..Len(d) |-> <<k, vals[k]>>], LAMBDA p : first(p[1]))

UniqueValues(d, col) == [k \in 1..Len(Unique(d, col)) |-> Unique(d, col)[k][2]]

RECURSIVE Product(_)
\* itertools.product of a list of lists: the last list varies fastest.
Product(lists) ==
    IF lists = <<>> THEN << <<>> >>
    ELSE LET rest == Product(Tail(lists))
             hd == Head(lists)
         IN  [k \in 1..(Len(hd) * Len(rest)) |->
                <<hd[((k - 1) \div Len(rest)) + 1]>> \o rest[((k - 1) % Len(rest)) + 1]]

all_group_combinations(d, cols) ==
    Product([c \in 1..Len(cols) |-> UniqueValues(d, cols[c])])

\* subframe = data filtered by every stratification column (lines 122-124).
Subframe(d, cols, group) ==
    SelectSeq(d, LAMBDA row : \A c \in 1..Len(cols) : row[cols[c]] = group[c])

RECURSIVE StratifyLoop(_, _, _, _, _)
\* The loop over the groups (lines 121-139, random_alloc false).
StratifyLoop(d, N, cols, groups, acc) ==
    IF groups = <<>> THEN acc
    ELSE LET subset == ArraySplit(Subframe(d, cols, Head(groups)), N)
         IN  StratifyLoop(d, N, cols, Tail(groups),
                          [k \in 1..N |-> acc[k] \o subset[k]])

stratify(d, N, cols) ==
    StratifyLoop(d, N, cols, all_group_combinations(d, cols), [k \in 1..N |-> <<>>])

(***************************************************************************)
(* randomize_uneven_stratification.                                        *)
(***************************************************************************)
MaxLen(ss) == CHOOSE m \in {Len(ss[k]) : k \in 1..Len(ss)} :
                  \A k \in 1..Len(ss) : Len(ss[k]) <= m

UnevenOffByOne(ss, threshold) ==
    \E k \in 1..Len(ss) : Len(ss[k]) <= MaxLen(ss) - threshold

\* Some subset is shorter than max_len - len_threshold (line 161).
Uneven(ss, threshold) ==
    \E k \in 1..Len(ss) : Len(ss[k]) < MaxLen(ss) - threshold

randomize_uneven_stratification(d, ss, N, t, threshold) ==
    IF ~t.is_timeseries /\ Uneven(ss, threshold)
    THEN ArraySplit(d, N)
    ELSE ss

(***************************************************************************)
(* stratify_wrapper.                                                       *)
(***************************************************************************)
StratifyOn(tgt, dtypes, t) ==
    (IF dtypes[tgt] \in {"categorical", "binary"} THEN <<tgt>> ELSE <<>>)
    \o (IF t.is_timeseries /\ t.group_by_is_list THEN t.group_by ELSE <<>>)

\* np.gcd is defined on integers only: float arguments raise TypeError.
NpGcdRaises(ptype) == ptype = "float"

stratify_wrapper(train, dev, test, tgt, p, ptype, dtypes, t) ==
    LET on == StratifyOn(tgt, dtypes, t)
    IN  IF on = <<>>
        THEN [status |-> "ok", train |-> train, dev |-> dev, test |-> test,
              stratified_on |-> on]
        ELSE IF NpGcdRaises(ptype) THEN [status |-> "TypeError", line |-> 87]
        ELSE LET d == Concat(<<train, dev, test>>)
                 gcd == Gcd(100, Gcd(p[3], Gcd(p[1], p[2])))
                 nr_subsets == 100 \div gcd
                 ss == randomize_uneven_stratification(
                           d, stratify(d, nr_subsets, on), nr_subsets, t, len_threshold)
                 train_part == Slice(ss, 0, p[1] \div gcd)
                 dev_part == Slice(ss, p[1] \div gcd, p[1] \div gcd + p[2] \div gcd)
                 test_part == SliceFrom(ss, p[1] \div gcd + p[2] \div gcd)
             IN  \* pd.concat of an empty list raises ValueError.
                 IF train_part = <<>> \/ dev_part = <<>> \/ test_part = <<>>
                 THEN [status |-> "ValueError", line |-> 93]
                 ELSE [status |-> "ok", train |-> Concat(train_part),
                       dev |-> Concat(dev_part), test |-> Concat(test_part),
                       stratified_on |-> on]

(***************************************************************************)
(* splitter.                                                               *)
(***************************************************************************)
\* sum(x) iterates over x: a float or an int is not iterable, so it raises TypeError.
SumRaises(ptype) == ptype \in {"float", "int"}

\* pct_train + pct_dev + pct_test != 1
SumNotOne(p, ptype) ==
    IF ptype = "float" THEN p[1] + p[2] + p[3] # 100 ELSE p[1] + p[2] + p[3] # 1

splitter(d, t, dtypes, s, p, ptype, tgt) ==
    IF SumRaises(ptype) THEN [status |-> "TypeError", line |-> 35]
    ELSE IF SumNotOne(p, ptype) THEN [status |-> "Exception", line |-> 36]
    ELSE LET cut == CutoffSplit(d, t, s, p[1], p[2])
         IN  IF tgt # None
             THEN stratify_wrapper(cut.train, cut.dev, cut.test, tgt, p, ptype, dtypes, t)
             ELSE [status |-> "ok", train |-> cut.train, dev |-> cut.dev,
                   test |-> cut.test, stratified_on |-> <<>>]

(***************************************************************************)
(* Input domains.                                                          *)
(***************************************************************************)
RowValues == {<<"a", "u">>, <<"b", "u">>, <<"b", "v">>, <<"c", "v">>}

\* The rows of the randomized-mode runs.
RandRowValues == {<<"a", "u">>, <<"b", "v">>}

MkData(vals) == [k \in 1..Len(vals) |-> [id |-> k, y |-> vals[k][1], g |-> vals[k][2]]]

DatasetsOver(values, maxlen) ==
    {MkData(vals) : vals \in UNION {[1..k -> values] : k \in 0..maxlen}}

Datasets(maxlen) == DatasetsOver(RowValues, maxlen)

TssChoices ==
    {[is_timeseries |-> FALSE, group_by_is_list |-> FALSE, group_by |-> <<>>],
     [is_timeseries |-> TRUE, group_by_is_list |-> FALSE, group_by |-> <<>>],
     [is_timeseries |-> TRUE, group_by_is_list |-> TRUE, group_by |-> <<"g">>]}

DtypeChoices == {[y |-> "categorical", g |-> "categorical"],
                 [y |-> "integer", g |-> "categorical"]}

\* Fractions in hundredths: triples that sum to 1 and triples that do not.
ValidPcts == {<<100, 0, 0>>, <<50, 50, 0>>, <<0, 50, 50>>, <<60, 20, 20>>,
              <<70, 15, 15>>, <<80, 10, 10>>}

InvalidPcts == {<<80, 10, 5>>, <<60, 30, 20>>}

\* Python ints handed to stratify_wrapper: whole percentages, and ints that sum to 1.
IntPcts == {<<60, 20, 20>>, <<80, 10, 10>>, <<50, 50, 0>>, <<1, 0, 0>>}

ColumnLists == {<<"y">>, <<"g">>, <<"y", "g">>}

SubsetCounts == {1, 2, 3, 5, 10}

Idle ==
    /\ split = [train |-> <<>>, dev |-> <<>>, test |-> <<>>]
    /\ nr_subset = 1
    /\ stratify_on = <<>>
    /\ random_alloc = FALSE
    /\ subsets = <<>>
    /\ result = NoResult
    /\ gi = 1
    /\ n = 0
    /\ already_visited = <<>>
    /\ i = 0

NoTss == [is_timeseries |-> FALSE, group_by_is_list |-> FALSE, group_by |-> <<>>]

(***************************************************************************)
(* Specification of splitter: one call, from its arguments to its outcome. *)
(***************************************************************************)
InitSplitter ==
    /\ pc = "splitter"
    /\ data \in Datasets(MaxRows)
    /\ tss \in TssChoices
    /\ dtype_dict \in DtypeChoices
    /\ seed \in 0..MaxSeed
    /\ pcts \in ValidPcts \cup InvalidPcts
    /\ pct_type = "float"
    /\ target \in {"y", None}
    /\ Idle

Splitter ==
    /\ pc = "splitter"
    /\ result' = splitter(data, tss, dtype_dict, seed, pcts, pct_type, target)
    /\ pc' = IF result'.status = "ok" THEN "returned" ELSE "raised"
    /\ UNCHANGED <<data, tss, dtype_dict, seed, pcts, pct_type, target, split,
                   nr_subset, stratify_on, random_alloc, subsets,
                   gi, n, already_visited, i>>

SpecSplitter == InitSplitter /\ [][Splitter]_vars

(***************************************************************************)
(* Specification of the cutoff split (splitter, lines 38-49).              *)
(***************************************************************************)
InitCutoff ==
    /\ pc = "cutoff"
    /\ data \in Datasets(MaxRows)
    /\ tss \in TssChoices
    /\ dtype_dict \in DtypeChoices
    /\ seed \in 0..MaxSeed
    /\ pcts \in ValidPcts
    /\ pct_type = "float"
    /\ target = None
    /\ Idle

Cutoff ==
    /\ pc = "cutoff"
    /\ split' = CutoffSplit(data, tss, seed, pcts[1], pcts[2])
    /\ pc' = "cut"
    /\ UNCHANGED <<data, tss, dtype_dict, seed, pcts, pct_type, target,
                   nr_subset, stratify_on, random_alloc, subsets, result,
                   gi, n, already_visited, i>>

SpecCutoff == InitCutoff /\ [][Cutoff]_vars

(***************************************************************************)
(* Specification of stratify_wrapper: one call on a cutoff split.          *)
(***************************************************************************)
InitWrapper ==
    /\ pc = "stratify_wrapper"
    /\ data \in Datasets(MaxRows)
    /\ tss \in TssChoices
    /\ dtype_dict \in DtypeChoices
    /\ seed = 0
    /\ \/ pct_type = "float" /\ pcts \in ValidPcts
       \/ pct_type = "int" /\ pcts \in IntPcts
    /\ target = "y"
    /\ \E c1 \in 0..Len(data) : \E c2 \in {c1, Len(data)} :
          split = [train |-> Slice(data, 0, c1), dev |-> Slice(data, c1, c2),
                   test |-> SliceFrom(data, c2)]
    /\ nr_subset = 1
    /\ stratify_on = <<>>
    /\ random_alloc = FALSE
    /\ subsets = <<>>
    /\ result = NoResult
    /\ gi = 1
    /\ n = 0
    /\ already_visited = <<>>
    /\ i = 0

StratifyWrapper ==
    /\ pc = "stratify_wrapper"
    /\ result' = stratify_wrapper(split.train, split.dev, split.test, target,
                                  pcts, pct_type, dtype_dict, tss)
    /\ pc' = IF result'.status = "ok" THEN "returned" ELSE "raised"
    /\ UNCHANGED <<data, tss, dtype_dict, seed, pcts, pct_type, target, split,
                   nr_subset, stratify_on, random_alloc, subsets,
                   gi, n, already_visited, i>>

SpecWrapper == InitWrapper /\ [][StratifyWrapper]_vars

(***************************************************************************)
(* Specification of stratify (deterministic mode) followed by              *)
(* randomize_uneven_stratification on its output.                          *)
(***************************************************************************)
InitStratify ==
    /\ pc = "stratify"
    /\ data \in Datasets(MaxRows)
    /\ tss \in {t \in TssChoices : ~t.group_by_is_list}
    /\ dtype_dict = [y |-> "categorical", g |-> "categorical"]
    /\ seed = 0
    /\ pcts = <<100, 0, 0>>
    /\ pct_type = "float"
    /\ target = "y"
    /\ split = [train |-> <<>>, dev |-> <<>>, test |-> <<>>]
    /\ nr_subset \in SubsetCounts
    /\ stratify_on \in ColumnLists
    /\ random_alloc = FALSE
    /\ subsets = <<>>
    /\ result = NoResult
    /\ gi = 1
    /\ n = 0
    /\ already_visited = <<>>
    /\ i = 0

Stratify ==
    /\ pc = "stratify"
    /\ subsets' = stratify(data, nr_subset, stratify_on)
    /\ pc' = "stratified"
    /\ UNCHANGED <<data, tss, dtype_dict, seed, pcts, pct_type, target, split,
                   nr_subset, stratify_on, random_alloc, result,
                   gi, n, already_visited, i>>

Validate ==
    /\ pc = "stratified"
    /\ result' = [status |-> "ok",
                   subsets |-> randomize_uneven_stratification(
                                   data, subsets, nr_subset, tss, len_threshold)]
    /\ pc' = "validated"
    /\ UNCHANGED <<data, tss, dtype_dict, seed, pcts, pct_type, target, split,
                   nr_subset, stratify_on, random_alloc, subsets,
                   gi, n, already_visited, i>>

SpecStratify == InitStratify /\ [][Stratify \/ Validate]_vars

(***************************************************************************)
(* Specification of stratify in randomized mode (random_alloc true), step  *)
(* by step: the loop over the groups and, per group, the allocation loop   *)
(* that draws chunk indices with np.random.randint.                        *)
(***************************************************************************)
InitRandom ==
    /\ pc = "group"
    /\ data \in DatasetsOver(RandRowValues, MaxRandRows)
    /\ tss = NoTss
    /\ dtype_dict = [y |-> "categorical", g |-> "categorical"]
    /\ seed = 0
    /\ pcts = <<100, 0, 0>>
    /\ pct_type = "float"
    /\ target = "y"
    /\ split = [train |-> <<>>, dev |-> <<>>, test |-> <<>>]
    /\ nr_subset \in 1..MaxRandSubsets
    /\ stratify_on \in ColumnLists
    /\ random_alloc = TRUE
    /\ subsets = [k \in 1..nr_subset |-> <<>>]
    /\ result = NoResult
    /\ gi = 1
    /\ n = 0
    /\ already_visited = <<>>
    /\ i = 0

\* subset = np.array_split(subframe, nr_subset) of the group at position g.
GroupChunks(g) ==
    ArraySplit(Subframe(data, stratify_on, all_group_combinations(data, stratify_on)[g]),
               nr_subset)

NeverVisited(v, visited) == FALSE

\* `i in already_visited` (line 133).
IsVisited(v, visited) == v \in Range(visited)

\* Lines 121-131: take the next group, split it, start with nothing visited.
NextGroup ==
    /\ pc = "group"
    /\ gi <= Len(all_group_combinations(data, stratify_on))
    /\ already_visited' = <<>>
    /\ n' = 0
    /\ pc' = "draw"
    /\ UNCHANGED <<data, tss, dtype_dict, seed, pcts, pct_type, target, split,
                   nr_subset, stratify_on, random_alloc, subsets, result, gi, i>>

\* Line 132: i = np.random.randint(nr_subset).
RandInt(v) ==
    /\ pc = "draw"
    /\ i' = v
    /\ pc' = "while"
    /\ UNCHANGED <<data, tss, dtype_dict, seed, pcts, pct_type, target, split,
                   nr_subset, stratify_on, random_alloc, subsets, result,
                   gi, n, already_visited>>

\* Lines 133-134: i was already visited, draw again.
RandIntAgain(v) ==
    /\ pc = "while"
    /\ IsVisited(i, already_visited)
    /\ i' = v
    /\ UNCHANGED <<pc, data, tss, dtype_dict, seed, pcts, pct_type, target, split,
                   nr_subset, stratify_on, random_alloc, subsets, result,
                   gi, n, already_visited>>

\* Lines 135-136: i is new; subset n receives chunk i, and the loop goes on.
Allocate ==
    /\ pc = "while"
    /\ ~IsVisited(i, already_visited)
    /\ already_visited' = Append(already_visited, i)
    /\ subsets' = [subsets EXCEPT ![n + 1] = @ \o GroupChunks(gi)[i + 1]]
    /\ n' = n + 1
    /\ IF n + 1 = nr_subset
       THEN pc' = "group" /\ gi' = gi + 1
       ELSE pc' = "draw" /\ gi' = gi
    /\ UNCHANGED <<data, tss, dtype_dict, seed, pcts, pct_type, target, split,
                   nr_subset, stratify_on, random_alloc, result, i>>

\* Line 141: every group is done.
Return ==
    /\ pc = "group"
    /\ gi > Len(all_group_combinations(data, stratify_on))
    /\ pc' = "returned"
    /\ UNCHANGED <<data, tss, dtype_dict, seed, pcts, pct_type, target, split,
                   nr_subset, stratify_on, random_alloc, subsets, result,
                   gi, n, already_visited, i>>

RandIntAny == \E v \in 0..(nr_subset - 1) : RandInt(v)

RandIntAgainAny == \E v \in 0..(nr_subset - 1) : RandIntAgain(v)

NextRandom == NextGroup \/ RandIntAny \/ RandIntAgainAny \/ Allocate \/ Return

\* A retry that draws an index not visited yet.
RandIntAgainFresh ==
    \E v \in 0..(nr_subset - 1) : RandIntAgain(v) /\ ~IsVisited(v, already_visited)

\* The function keeps running, and the generator is uniform: while indices are
\* left to draw, a retry eventually draws one of them.
SpecRandom ==
    /\ InitRandom
    /\ [][NextRandom]_vars
    /\ WF_vars(NextGroup \/ RandIntAny \/ Allocate \/ Return)
    /\ WF_vars(RandIntAgainFresh)

(***************************************************************************)
(* Vocabulary of the properties.                                           *)
(***************************************************************************)
\* The fractions sum to exactly 1.
SumsToOne == IF pct_type = "float" THEN pcts[1] + pcts[2] + pcts[3] = 100
             ELSE pcts[1] + pcts[2] + pcts[3] = 1

\* The fractions as whole-number percentages (pct * 100).
Percent(k) == IF pct_type = "float" THEN pcts[k] ELSE 100 * pcts[k]

\* frame holds every row of d exactly once and nothing else.
HoldsExactlyOnce(frame, d) ==
    /\ Len(frame) = Len(d)
    /\ \A k \in 1..Len(d) : Cardinality({j \in 1..Len(frame) : frame[j] = d[k]}) = 1

KeyOf(row, cols) == [c \in 1..Len(cols) |-> row[cols[c]]]

\* The observed group keys: the combinations of values that some row has.
GroupKeys(d, cols) == {KeyOf(d[k], cols) : k \in 1..Len(d)}

RowsOf(frame, cols, key) == SelectSeq(frame, LAMBDA row : KeyOf(row, cols) = key)

\* ss is a contiguous partition of d into N chunks whose sizes differ by at most one.
IsContiguousPartition(ss, d, N) ==
    /\ Len(ss) = N
    /\ Concat(ss) = d
    /\ \A j, k \in 1..N : Len(ss[j]) - Len(ss[k]) \in {-1, 0, 1}

\* Some subset is more than len_threshold rows shorter than the longest one.
HasGap(ss) == \E j, k \in 1..Len(ss) : Len(ss[j]) < Len(ss[k]) - len_threshold

\* n * pct is a rounding tie whose integer part is even: round() takes it down.
TieRoundedDown(rows, pct) ==
    (rows * pct) % 100 = 50 /\ ((rows * pct) \div 100) % 2 = 0

(***************************************************************************)
(* C1: after splitter has run on fractions that sum to 1, it has returned  *)
(* a result in which every row of the input data appears in exactly one of *)
(* train, dev and test, and no other row appears.                          *)
(***************************************************************************)
C1_RowConservation ==
    (pc \in {"returned", "raised"} /\ SumsToOne) =>
        /\ result.status = "ok"
        /\ HoldsExactlyOnce(result.train \o result.dev \o result.test, data)

(***************************************************************************)
(* C2: splitter raises the configuration error exactly when the fractions  *)
(* do not sum to 1; when they do, the check (lines 35-36) raises nothing.  *)
(***************************************************************************)
C2_FractionSumCheck ==
    pc \in {"returned", "raised"} =>
        /\ (~SumsToOne) <=> (result.status = "Exception")
        /\ SumsToOne => ~(result.status # "ok" /\ result.line \in {35, 36})

(***************************************************************************)
(* C4: once the fractions sum to 1, splitter runs to completion and        *)
(* returns train, dev, test and stratified_on; it never raises.            *)
(***************************************************************************)
C4_AlwaysCompletes ==
    (pc \in {"returned", "raised"} /\ SumsToOne) =>
        /\ result.status = "ok"
        /\ {"train", "dev", "test", "stratified_on"} \subseteq DOMAIN result

(***************************************************************************)
(* C10: when stratify_wrapper stratifies on fractions that sum to 1, the   *)
(* unit count is N = 100 / gcd(100, pct_test*100, pct_train*100,           *)
(* pct_dev*100), the unit counts add up to N, and train, dev and test are  *)
(* the first train_units, the next dev_units and the remaining subsets.    *)
(***************************************************************************)
C10_UnitReassembly ==
    (/\ pc \in {"returned", "raised"}
     /\ StratifyOn(target, dtype_dict, tss) # <<>>
     /\ SumsToOne) =>
        LET unit == Gcd(100, Gcd(Percent(3), Gcd(Percent(1), Percent(2))))
            N == 100 \div unit
            train_units == Percent(1) \div unit
            dev_units == Percent(2) \div unit
            test_units == Percent(3) \div unit
            d == split.train \o split.dev \o split.test
            ss == randomize_uneven_stratification(
                      d, stratify(d, N, StratifyOn(target, dtype_dict, tss)), N, tss,
                      len_threshold)
        IN  /\ train_units + dev_units + test_units = N
            /\ result.status = "ok"
            /\ result.train = Concat(SubSeq(ss, 1, train_units))
            /\ result.dev = Concat(SubSeq(ss, train_units + 1, train_units + dev_units))
            /\ result.test = Concat(SubSeq(ss, train_units + dev_units + 1, N))

HasOneRowGroup ==
    \E key \in GroupKeys(data, stratify_on) : Len(RowsOf(data, stratify_on, key)) = 1

\* The observed groups whose row count is not a multiple of the subset count.
UnevenGroups ==
    {key \in GroupKeys(data, stratify_on) :
        Len(RowsOf(data, stratify_on, key)) % nr_subset # 0}

C6_OneRowGroupTriggersFallback ==
    (pc = "validated" /\ ~tss.is_timeseries /\ nr_subset = 10 /\ HasOneRowGroup) =>
        /\ HasGap(subsets)
        /\ IsContiguousPartition(result.subsets, data, nr_subset)

(***************************************************************************)
(* C6 amended: for non-time-series data stratified into 10 subsets in      *)
(* which some group combination has exactly 1 row and at least two other   *)
(* group combinations have a row count that is not a multiple of 10, the   *)
(* output of stratify has a subset shorter than max_len - 2, and the       *)
(* validator replaces the stratified subsets by the contiguous partition   *)
(* of the data.                                                            *)
(***************************************************************************)
C6_ThreeUnevenGroupsTriggerFallback ==
    (/\ pc = "validated"
     /\ ~tss.is_timeseries
     /\ nr_subset = 10
     /\ HasOneRowGroup
     /\ Cardinality(UnevenGroups) >= 3) =>
        /\ HasGap(subsets)
        /\ IsContiguousPartition(result.subsets, data, nr_subset)
        /\ result.subsets # subsets

C6_Witness ==
    /\ pc = "validated"
    /\ ~tss.is_timeseries
    /\ nr_subset = 10
    /\ HasOneRowGroup
    /\ Cardinality(UnevenGroups) >= 3
    /\ Len(subsets[1]) = 3
    /\ Len(result.subsets[1]) = 1

(***************************************************************************)
(* C7: randomize_uneven_stratification returns the stratified subsets      *)
(* unchanged for a time series, and for other data when no subset is       *)
(* shorter than max_len - len_threshold; otherwise it returns the          *)
(* contiguous partition of the data into N chunks whose sizes differ by at *)
(* most one row.                                                           *)
(***************************************************************************)
C7_ValidatorBehaviour ==
    pc = "validated" =>
        /\ tss.is_timeseries => result.subsets = subsets
        /\ (~tss.is_timeseries /\ ~HasGap(subsets)) => result.subsets = subsets
        /\ (~tss.is_timeseries /\ HasGap(subsets)) =>
              IsContiguousPartition(result.subsets, data, nr_subset)

C7_Witness ==
    /\ pc = "validated"
    /\ ~tss.is_timeseries
    /\ HasGap(subsets)
    /\ result.subsets # subsets
    /\ nr_subset = 3

(***************************************************************************)
(* C8: in deterministic mode stratify gives subset i, for every observed   *)
(* group, the i-th of the N contiguous chunks of that group's rows; the    *)
(* chunk sizes differ by at most one row, the longer chunks coming first.  *)
(***************************************************************************)
C8_DeterministicChunks ==
    pc = "stratified" =>
        /\ Len(subsets) = nr_subset
        /\ Len(Concat(subsets)) = Len(data)
        /\ \A key \in GroupKeys(data, stratify_on) :
              LET part == [j \in 1..nr_subset |-> RowsOf(subsets[j], stratify_on, key)]
              IN  /\ Concat(part) = RowsOf(data, stratify_on, key)
                  /\ \A j, k \in 1..nr_subset :
                        j < k => Len(part[j]) - Len(part[k]) \in {0, 1}

C8_Witness ==
    /\ pc = "stratified"
    /\ nr_subset = 3
    /\ Cardinality(GroupKeys(data, stratify_on)) = 2
    /\ Len(subsets[1]) = 2 /\ Len(subsets[2]) = 1 /\ Len(subsets[3]) = 1

(***************************************************************************)
(* C9: in randomized mode the allocation loop of every group finishes, and *)
(* it has then given the group's N chunks to the N subsets by a bijection: *)
(* already_visited never holds an index twice, and when the loop is over   *)
(* it holds every index once, subset n holding chunk already_visited[n].   *)
(***************************************************************************)
NoChunkTwice ==
    \A a, b \in 1..Len(already_visited) : a # b => already_visited[a] # already_visited[b]

AllocationIsBijection ==
    /\ Len(already_visited) = nr_subset
    /\ Range(already_visited) = 0..(nr_subset - 1)
    /\ \A k \in 1..nr_subset :
          RowsOf(subsets[k], stratify_on,
                 all_group_combinations(data, stratify_on)[gi - 1])
              = GroupChunks(gi - 1)[already_visited[k] + 1]

C9_RandomAllocBijection ==
    /\ <>(pc = "returned")
    /\ [](NoChunkTwice /\ ((pc \in {"group", "returned"} /\ gi > 1) => AllocationIsBijection))

C9_Witness ==
    /\ pc = "returned"
    /\ nr_subset = 2
    /\ already_visited = <<1, 0>>
    /\ subsets[1] = <<>>
    /\ Len(subsets[2]) = 2

====
